---- MODULE Spec2Model ----
(***************************************************************************)
(* Order matching engine: MatchingEngine (pkg/matching/engine.go) over the *)
(* per-symbol OrderBook (pkg/orderbook) and the Order / Trade records      *)
(* (pkg/types/order.go).                                                   *)
(*                                                                         *)
(* Order objects live in the heap `orders`; a handle is an index into it.  *)
(* The book's price levels and its id map hold handles, as the Go code     *)
(* holds *types.Order pointers.  ProcessOrder is modelled step by step     *)
(* (one action per iteration of the matching loop, one for the code after  *)
(* the loop); the engine mutex is held for the whole call, so no other     *)
(* operation runs while a submit is in flight.                             *)
(*                                                                         *)
(* heap.Push(levels, level) is modelled by its library contract: append    *)
(* the level and sift it up with the side's Less.  (priceLevels.Push has a *)
(* value receiver and *priceLevels has no Less; the model follows what the *)
(* call is written to do, a push onto the side's heap.)                    *)
(*                                                                         *)
(* An order object that a call leaves neither stored in a book nor named   *)
(* by a trade is dropped from `orders` when the call returns: nothing the  *)
(* engine holds refers to it.                                              *)
(*                                                                         *)
(* `prior` is a history variable: the book a submit found when it began,   *)
(* kept until the next cancel returns.  `threads` holds the callers of the *)
(* specifications SpecThreads and SpecTwoBooks, in which several threads   *)
(* call ProcessOrder concurrently and me.mutex decides who runs; it is     *)
(* empty in Spec and SpecBooks, where `call` is the one call in flight.    *)
(***************************************************************************)
EXTENDS Integers, Sequences, FiniteSets, TLC

VARIABLES orderBooks, orders, trades, call, ret, prior, threads

vars == <<orderBooks, orders, trades, call, ret, prior, threads>>

\* ---------------------------------------------------------------- bounds
MaxOrders == 3
MaxPrice == 2
MaxQty == 2
MaxLevels == 3
MaxCalls == 4

Symbols == {"X", "Y"}
Prices == 1..MaxPrice
Quantities == 1..MaxQty
OrderIDs == 1..MaxOrders

\* ------------------------------------------------------- types/order.go
LimitOrder == "LIMIT"
MarketOrder == "MARKET"
StopOrder == "STOP"
BuyOrder == "BUY"
SellOrder == "SELL"
OrderStatusNew == "NEW"
OrderStatusPartial == "PARTIAL"
OrderStatusFilled == "FILLED"
OrderStatusCancelled == "CANCELLED"
OrderStatusRejected == "REJECTED"

OrderTypes == {LimitOrder, MarketOrder, StopOrder}
OrderSides == {BuyOrder, SellOrder}

\* absent book in the registry / nil order pointer / absent map entry
NoBook == [symbol |-> "", bids |-> <<>>, asks |-> <<>>, orders |-> [i \in OrderIDs |-> 0], exists |-> FALSE]
Nil == 0

ErrNone == "nil"
ErrExists == "already exists"
ErrNotFound == "not found"
ErrAlreadyCancelled == "already cancelled"
ErrMarketUnfilled == "market order could not be fully filled"
ErrInvalidSymbol == "invalid symbol"

\* the Order value a caller hands to ProcessOrder
Order(id, symbol, type, side, price, qty, rem) ==
  [ID |-> id, UserID |-> "", Symbol |-> symbol, Type |-> type, Side |-> side, Price |-> price,
   Quantity |-> qty, FilledQty |-> 0, RemainingQty |-> rem, Status |-> ""]

\* ------------------------------------------------------------ helpers
\* a trade quantity taken from the taker alone
minOfTaker(a, b) == a

min(a, b) == IF a < b THEN a ELSE b

RemoveAt(s, i) == SubSeq(s, 1, i - 1) \o SubSeq(s, i + 1, Len(s))

Swap(s, i, j) == [s EXCEPT ![i] = s[j], ![j] = s[i]]

\* ------------------------------------------------- orderbook: the heap
BuyLess(pl, i, j) == pl[i].price > pl[j].price

SellLess(pl, i, j) == pl[i].price < pl[j].price

Less(side, pl, i, j) == IF side = BuyOrder THEN BuyLess(pl, i, j) ELSE SellLess(pl, i, j)

\* container/heap up(h, j), on 1-based positions: the parent of j is j \div 2
RECURSIVE HeapUp(_, _, _)
HeapUp(side, pl, j) ==
  IF j <= 1 THEN pl
  ELSE LET i == j \div 2 IN
       IF ~Less(side, pl, j, i) THEN pl
       ELSE HeapUp(side, Swap(pl, i, j), i)

\* heap.Push that appends the level and leaves it where it is
HeapPushNoSift(side, pl, level) == Append(pl, level)

HeapPush(side, pl, level) == HeapUp(side, Append(pl, level), Len(pl) + 1)

NewOrderBook(symbol) ==
  [symbol |-> symbol, bids |-> <<>>, asks |-> <<>>, orders |-> [i \in OrderIDs |-> Nil], exists |-> TRUE]

SideLevels(ob, side) == IF side = BuyOrder THEN ob.bids ELSE ob.asks

WithSideLevels(ob, side, pl) ==
  IF side = BuyOrder THEN [ob EXCEPT !.bids = pl] ELSE [ob EXCEPT !.asks = pl]

\* index of the first level at this price, 0 when there is none
FindLevel(pl, price) ==
  IF \E k \in 1..Len(pl) : pl[k].price = price
  THEN CHOOSE k \in 1..Len(pl) : pl[k].price = price /\ \A k2 \in 1..(k - 1) : pl[k2].price # price
  ELSE 0

\* index of the first order in the queue whose ID is id, 0 when there is none
FindOrder(os, q, id) ==
  IF \E k \in 1..Len(q) : os[q[k]].ID = id
  THEN CHOOSE k \in 1..Len(q) : os[q[k]].ID = id /\ \A k2 \in 1..(k - 1) : os[q[k2]].ID # id
  ELSE 0

\* AddOrder that initialises status and remaining but keeps FilledQty
AddOrderKeepFilled(ob, os, h) ==
  IF ob.orders[os[h].ID] # Nil
  THEN [ob |-> ob, os |-> os, err |-> ErrExists]
  ELSE LET o == [os[h] EXCEPT !.Status = OrderStatusNew,
                              !.RemainingQty = os[h].Quantity]
           os1 == [os EXCEPT ![h] = o]
           ob1 == [ob EXCEPT !.orders[o.ID] = h]
           pl == SideLevels(ob1, o.Side)
           k == FindLevel(pl, o.Price)
           pl1 == IF k = 0
                  THEN HeapPush(o.Side, pl, [price |-> o.Price, orders |-> <<>>, volume |-> 0])
                  ELSE pl
           k1 == FindLevel(pl1, o.Price)
           pl2 == [pl1 EXCEPT ![k1].orders = Append(pl1[k1].orders, h),
                              ![k1].volume = pl1[k1].volume + o.RemainingQty]
       IN [ob |-> WithSideLevels(ob1, o.Side, pl2), os |-> os1, err |-> ErrNone]

\* OrderBook.AddOrder on the order object h; result: the book, the heap, the error
AddOrder(ob, os, h) ==
  IF ob.orders[os[h].ID] # Nil
  THEN [ob |-> ob, os |-> os, err |-> ErrExists]
  ELSE LET o == [os[h] EXCEPT !.Status = OrderStatusNew,
                              !.RemainingQty = os[h].Quantity,
                              !.FilledQty = 0]
           os1 == [os EXCEPT ![h] = o]
           ob1 == [ob EXCEPT !.orders[o.ID] = h]
           pl == SideLevels(ob1, o.Side)
           k == FindLevel(pl, o.Price)
           pl1 == IF k = 0
                  THEN HeapPush(o.Side, pl, [price |-> o.Price, orders |-> <<>>, volume |-> 0])
                  ELSE pl
           k1 == FindLevel(pl1, o.Price)
           pl2 == [pl1 EXCEPT ![k1].orders = Append(pl1[k1].orders, h),
                              ![k1].volume = pl1[k1].volume + o.RemainingQty]
       IN [ob |-> WithSideLevels(ob1, o.Side, pl2), os |-> os1, err |-> ErrNone]

\* CancelOrder without the test for an order that is already cancelled
OBCancelOrderNoCheck(ob, os, orderID) ==
  LET h == ob.orders[orderID] IN
  IF h = Nil
  THEN [ob |-> ob, os |-> os, err |-> ErrNotFound]
  ELSE LET o == [os[h] EXCEPT !.Status = OrderStatusCancelled]
           os1 == [os EXCEPT ![h] = o]
           pl == SideLevels(ob, o.Side)
           k == FindLevel(pl, o.Price)
           i == IF k = 0 THEN 0 ELSE FindOrder(os1, pl[k].orders, orderID)
           pl1 == IF k = 0 \/ i = 0 THEN pl
                  ELSE [pl EXCEPT ![k].orders = RemoveAt(pl[k].orders, i),
                                  ![k].volume = pl[k].volume - o.RemainingQty]
       IN [ob |-> WithSideLevels(ob, o.Side, pl1), os |-> os1, err |-> ErrNone]

\* OrderBook.CancelOrder; result: the book, the heap, the error
OBCancelOrder(ob, os, orderID) ==
  LET h == ob.orders[orderID] IN
  IF h = Nil
  THEN [ob |-> ob, os |-> os, err |-> ErrNotFound]
  ELSE IF os[h].Status = OrderStatusCancelled
  THEN [ob |-> ob, os |-> os, err |-> ErrAlreadyCancelled]
  ELSE LET o == [os[h] EXCEPT !.Status = OrderStatusCancelled]
           os1 == [os EXCEPT ![h] = o]
           pl == SideLevels(ob, o.Side)
           k == FindLevel(pl, o.Price)
           i == IF k = 0 THEN 0 ELSE FindOrder(os1, pl[k].orders, orderID)
           pl1 == IF k = 0 \/ i = 0 THEN pl
                  ELSE [pl EXCEPT ![k].orders = RemoveAt(pl[k].orders, i),
                                  ![k].volume = pl[k].volume - o.RemainingQty]
       IN [ob |-> WithSideLevels(ob, o.Side, pl1), os |-> os1, err |-> ErrNone]

\* OrderBook.GetOrder
GetOrder(ob, orderID) ==
  IF ob.orders[orderID] = Nil THEN [order |-> Nil, err |-> ErrNotFound]
  ELSE [order |-> ob.orders[orderID], err |-> ErrNone]

\* best order taken from the tail of the head level's queue
BestOfNewest(ob, pl, symbol) ==
  IF symbol # ob.symbol THEN [order |-> Nil, err |-> ErrInvalidSymbol]
  ELSE IF Len(pl) = 0 THEN [order |-> Nil, err |-> ErrNone]
  ELSE IF Len(pl[1].orders) = 0 THEN [order |-> Nil, err |-> ErrNone]
  ELSE [order |-> pl[1].orders[Len(pl[1].orders)], err |-> ErrNone]

\* the head order of the head level; nil when there is no level or the head
\* level's queue is empty
BestOf(ob, pl, symbol) ==
  IF symbol # ob.symbol THEN [order |-> Nil, err |-> ErrInvalidSymbol]
  ELSE IF Len(pl) = 0 THEN [order |-> Nil, err |-> ErrNone]
  ELSE IF Len(pl[1].orders) = 0 THEN [order |-> Nil, err |-> ErrNone]
  ELSE [order |-> pl[1].orders[1], err |-> ErrNone]

GetBestBid(ob, symbol) == BestOf(ob, ob.bids, symbol)

GetBestAsk(ob, symbol) == BestOf(ob, ob.asks, symbol)

\* the entries GetOrderBookSnapshot appends for one side: the levels in the
\* order the side's slice holds them, those with an empty queue left out
RECURSIVE SnapshotLevels(_)
SnapshotLevels(pl) ==
  IF pl = <<>> THEN <<>>
  ELSE (IF Len(Head(pl).orders) > 0
        THEN <<[Price |-> Head(pl).price, Quantity |-> Head(pl).volume, Orders |-> Len(Head(pl).orders)]>>
        ELSE <<>>) \o SnapshotLevels(Tail(pl))

\* OrderBook.GetOrderBookSnapshot
GetOrderBookSnapshot(ob, symbol) ==
  IF symbol # ob.symbol THEN [snapshot |-> Nil, err |-> ErrInvalidSymbol]
  ELSE [snapshot |-> [Symbol |-> ob.symbol, Bids |-> SnapshotLevels(ob.bids), Asks |-> SnapshotLevels(ob.asks)],
        err |-> ErrNone]

\* ------------------------------------------------------ matching engine
\* updateOrderStatus without the FILLED case
updateOrderStatusPartial(o) ==
  IF o.FilledQty > 0 THEN [o EXCEPT !.Status = OrderStatusPartial] ELSE o

\* MatchingEngine.updateOrderStatus
updateOrderStatus(o) ==
  IF o.RemainingQty = 0 THEN [o EXCEPT !.Status = OrderStatusFilled]
  ELSE IF o.FilledQty > 0 THEN [o EXCEPT !.Status = OrderStatusPartial]
  ELSE o

\* a price check that also keeps an owner from trading with itself
PriceAllowsNoSelfTrade(o, m) ==
  IF o.UserID = m.UserID THEN FALSE
  ELSE IF o.Type = LimitOrder
  THEN ~(o.Side = BuyOrder /\ o.Price < m.Price) /\ ~(o.Side = SellOrder /\ o.Price > m.Price)
  ELSE TRUE

\* the price check with the two comparisons exchanged
PriceAllowsSwapped(o, m) ==
  IF o.Type = LimitOrder
  THEN ~(o.Side = BuyOrder /\ o.Price > m.Price) /\ ~(o.Side = SellOrder /\ o.Price < m.Price)
  ELSE TRUE

\* the price check of matchOrder: FALSE when the loop breaks on price
PriceAllows(o, m) ==
  IF o.Type = LimitOrder
  THEN ~(o.Side = BuyOrder /\ o.Price < m.Price) /\ ~(o.Side = SellOrder /\ o.Price > m.Price)
  ELSE TRUE

\* the best order opposite to the taker o
Opposite(ob, o) ==
  IF o.Side = BuyOrder THEN GetBestAsk(ob, o.Symbol) ELSE GetBestBid(ob, o.Symbol)

\* a trade priced at the incoming order's limit
TradePriceOfTaker(o, m) == o.Price

\* the trade price of matchOrder
TradePrice(o, m) == m.Price

\* the Trade record built by matchOrder (taker and maker: the two order objects)
NewTrade(o, m, qty, taker, maker) ==
  [Symbol |-> o.Symbol, Price |-> TradePrice(o, m), Quantity |-> qty,
   BuyOrderID |-> IF o.Side = BuyOrder THEN o.ID ELSE m.ID,
   SellOrderID |-> IF o.Side = BuyOrder THEN m.ID ELSE o.ID,
   BuyerUserID |-> IF o.Side = BuyOrder THEN o.UserID ELSE m.UserID,
   SellerUserID |-> IF o.Side = BuyOrder THEN m.UserID ELSE o.UserID,
   taker |-> taker, maker |-> maker]

\* a registry that keeps one book for all symbols
BookKeyShared(o) == "X"

\* the key under which ProcessOrder looks up, or creates, the order's book
BookKey(o) == o.Symbol

Idle == [op |-> "idle", taker |-> Nil, trades |-> <<>>]

NoRet == [op |-> "none", err |-> ErrNone, order |-> Nil, trades |-> <<>>]

Init ==
  /\ orderBooks = [s \in Symbols |-> NoBook]
  /\ orders = <<>>
  /\ trades = <<>>
  /\ call = Idle
  /\ ret = NoRet
  /\ prior = NoBook
  /\ threads = <<>>

\* ProcessOrder up to the matching loop: take the engine mutex, get or
\* create the book.  The caller's order object enters the heap.
BeginProcessOrder(o) ==
  /\ call.op = "idle"
  /\ Len(orders) < MaxOrders
  /\ orders' = Append(orders, o)
  /\ orderBooks' = IF orderBooks[BookKey(o)].exists THEN orderBooks
                   ELSE [orderBooks EXCEPT ![BookKey(o)] = NewOrderBook(o.Symbol)]
  /\ call' = [op |-> "submit", taker |-> Len(orders) + 1, trades |-> <<>>]
  /\ prior' = orderBooks[BookKey(o)]
  /\ UNCHANGED <<trades, ret, threads>>

\* the loop of matchOrder goes on: the taker has remaining quantity, the
\* opposite side has a best order and the price check passes
LoopContinues(ob, o, os) ==
  /\ o.RemainingQty > 0
  /\ Opposite(ob, o).err = ErrNone
  /\ Opposite(ob, o).order # Nil
  /\ PriceAllows(o, os[Opposite(ob, o).order])

\* the body of one iteration of the loop of matchOrder on the taker t, from
\* the trade to the status updates: the trade, the two orders updated, the
\* maker and whether it is now FILLED
FillOnce(ob, os, t) ==
  LET o == os[t]
      mh == Opposite(ob, o).order
      m == os[mh]
      tradeQty == min(o.RemainingQty, m.RemainingQty)
      o1 == updateOrderStatus([o EXCEPT !.FilledQty = o.FilledQty + tradeQty,
                                        !.RemainingQty = o.RemainingQty - tradeQty])
      m1 == updateOrderStatus([m EXCEPT !.FilledQty = m.FilledQty + tradeQty,
                                        !.RemainingQty = m.RemainingQty - tradeQty])
  IN [os |-> [os EXCEPT ![t] = o1, ![mh] = m1], maker |-> mh,
      filled |-> (m1.Status = OrderStatusFilled), trade |-> NewTrade(o, m, tradeQty, t, mh)]

\* one iteration of the loop of matchOrder on the taker t, past the breaks:
\* the trade, the two orders updated, a filled maker taken off the book
MatchOnce(ob, os, t) ==
  LET f == FillOnce(ob, os, t)
      c == IF f.filled
           THEN OBCancelOrder(ob, f.os, f.os[f.maker].ID)
           ELSE [ob |-> ob, os |-> f.os, err |-> ErrNone]
  IN [ob |-> c.ob, os |-> c.os, err |-> c.err, trade |-> f.trade]

\* one iteration of the loop of matchOrder
MatchStep ==
  /\ call.op = "submit"
  /\ LET t == call.taker
         o == orders[t]
         ob == orderBooks[BookKey(o)]
     IN /\ LoopContinues(ob, o, orders)
        /\ LET c == MatchOnce(ob, orders, t)
           IN /\ orders' = c.os
              /\ orderBooks' = [orderBooks EXCEPT ![BookKey(o)] = c.ob]
              /\ IF c.err # ErrNone
                 THEN /\ call' = Idle
                      /\ ret' = [op |-> "submit", err |-> c.err, order |-> t, trades |-> <<>>]
                      /\ UNCHANGED trades
                 ELSE /\ call' = [call EXCEPT !.trades = Append(call.trades, c.trade)]
                      /\ trades' = Append(trades, c.trade)
                      /\ UNCHANGED ret
  /\ UNCHANGED <<prior, threads>>

\* the caller's order object after a call: the engine keeps a reference to
\* it only if a book stores it, and only a trade can name it afterwards.
\* An object that is neither stored nor named leaves the heap with the call.
Retained(ob, os, h, ts) ==
  \/ ob.orders[os[h].ID] = h
  \/ ts # <<>>

Release(ob, os, h, ts) == IF Retained(ob, os, h, ts) THEN os ELSE SubSeq(os, 1, h - 1)

\* the value ProcessOrder returns, with the caller's order
Returned(ob, os, h, ts, err) ==
  [op |-> "submit", err |-> err, order |-> IF Retained(ob, os, h, ts) THEN h ELSE Nil, trades |-> ts]

\* ProcessOrder / processMarketOrder after the loop of matchOrder has ended
\* on the taker t with the trades ts: the book, the heap, the error and the
\* trades returned
AfterLoop(ob, os, t, ts) ==
  LET o == os[t]
      best == Opposite(ob, o)
  IN IF best.err # ErrNone /\ o.RemainingQty > 0
     THEN [ob |-> ob, os |-> os, err |-> best.err, trades |-> <<>>]
     ELSE IF o.Type = MarketOrder
     THEN IF o.RemainingQty > 0
          THEN [ob |-> ob, os |-> [os EXCEPT ![t].Status = OrderStatusRejected],
                err |-> ErrMarketUnfilled, trades |-> ts]
          ELSE [ob |-> ob, os |-> os, err |-> ErrNone, trades |-> ts]
     ELSE IF o.RemainingQty > 0
     THEN AddOrder(ob, os, t) @@ [trades |-> ts]
     ELSE [ob |-> ob, os |-> os, err |-> ErrNone, trades |-> ts]

\* the loop of matchOrder has ended: the rest of ProcessOrder /
\* processMarketOrder, and the return
FinishProcessOrder ==
  /\ call.op = "submit"
  /\ LET t == call.taker
         o == orders[t]
         ob == orderBooks[BookKey(o)]
         r == AfterLoop(ob, orders, t, call.trades)
     IN /\ ~LoopContinues(ob, o, orders)
        /\ orderBooks' = [orderBooks EXCEPT ![BookKey(o)] = r.ob]
        /\ orders' = Release(r.ob, r.os, t, call.trades)
        /\ ret' = Returned(r.ob, r.os, t, r.trades, r.err)
  /\ call' = Idle
  /\ UNCHANGED <<trades, prior, threads>>

\* CancelOrder that returns nil when no book knows the id
CancelOrderSilent(orderID) ==
  /\ call.op = "idle"
  /\ IF \E s \in Symbols : orderBooks[s].exists /\ GetOrder(orderBooks[s], orderID).err = ErrNone
     THEN \E s \in Symbols :
            /\ orderBooks[s].exists
            /\ GetOrder(orderBooks[s], orderID).err = ErrNone
            /\ LET c == OBCancelOrder(orderBooks[s], orders, orderID)
               IN /\ orders' = c.os
                  /\ orderBooks' = [orderBooks EXCEPT ![s] = c.ob]
                  /\ ret' = [op |-> "cancel", err |-> c.err, order |-> orderID, trades |-> <<>>]
     ELSE /\ ret' = [op |-> "cancel", err |-> ErrNone, order |-> orderID, trades |-> <<>>]
          /\ UNCHANGED <<orders, orderBooks>>
  /\ prior' = NoBook
  /\ UNCHANGED <<trades, call, threads>>

\* MatchingEngine.CancelOrder: the first book that knows the id cancels it
CancelOrder(orderID) ==
  /\ call.op = "idle"
  /\ IF \E s \in Symbols : orderBooks[s].exists /\ GetOrder(orderBooks[s], orderID).err = ErrNone
     THEN \E s \in Symbols :
            /\ orderBooks[s].exists
            /\ GetOrder(orderBooks[s], orderID).err = ErrNone
            /\ LET c == OBCancelOrder(orderBooks[s], orders, orderID)
               IN /\ orders' = c.os
                  /\ orderBooks' = [orderBooks EXCEPT ![s] = c.ob]
                  /\ ret' = [op |-> "cancel", err |-> c.err, order |-> orderID, trades |-> <<>>]
     ELSE /\ ret' = [op |-> "cancel", err |-> ErrNotFound, order |-> orderID, trades |-> <<>>]
          /\ UNCHANGED <<orders, orderBooks>>
  /\ prior' = NoBook
  /\ UNCHANGED <<trades, call, threads>>

\* MatchingEngine.GetOrderBook, a read under the engine mutex
GetOrderBook(symbol) ==
  IF ~orderBooks[symbol].exists THEN [snapshot |-> Nil, err |-> ErrNotFound]
  ELSE GetOrderBookSnapshot(orderBooks[symbol], symbol)

\* a submit with a fresh id (Handler.CreateOrder draws a uuid).  The caller
\* either leaves RemainingQty at its zero value, as Handler.CreateOrder
\* does (rem = 0), or passes an order initialised to RemainingQty =
\* Quantity (rem = 1).  A MARKET order carries no price.
SubmitFrom(symbols, types, quantities, rems) ==
  \E symbol \in symbols, type \in types, side \in OrderSides,
     price \in Prices, qty \in quantities, rem \in rems :
    BeginProcessOrder(Order(Len(orders) + 1, symbol, type, side,
                            IF type = MarketOrder THEN 0 ELSE price, qty, rem * qty))

\* one book in depth: every order type, both kinds of caller
Submit == SubmitFrom({"X"}, OrderTypes, Quantities, {0, 1})

\* several books: unit quantities, initialised orders
SubmitAnyBook == SubmitFrom(Symbols, OrderTypes, {1}, {1})

Cancel == \E orderID \in OrderIDs : CancelOrder(orderID)

Next == Submit \/ MatchStep \/ FinishProcessOrder \/ Cancel

Spec == Init /\ [][Next]_vars

NextBooks == SubmitAnyBook \/ MatchStep \/ FinishProcessOrder \/ Cancel

SpecBooks == Init /\ [][NextBooks]_vars

\* a submit whose id the caller chose: ProcessOrder takes the id as it
\* comes, fresh or already used (initialised orders on the book X)
SubmitAnyId ==
  \E id \in OrderIDs, type \in {LimitOrder, MarketOrder}, side \in OrderSides, price \in Prices, qty \in Quantities :
    BeginProcessOrder(Order(id, "X", type, side, IF type = MarketOrder THEN 0 ELSE price, qty, qty))

\* LIMIT orders of quantity 1 at MaxLevels distinct prices, so that a side
\* of the book holds a heap of more than two levels
SubmitLevels ==
  \E side \in OrderSides, price \in 1..MaxLevels :
    BeginProcessOrder(Order(Len(orders) + 1, "X", LimitOrder, side, price, 1, 1))

NextLevels == SubmitLevels \/ MatchStep \/ FinishProcessOrder \/ Cancel

SpecLevels == Init /\ [][NextLevels]_vars

\* a submit as any caller of the engine can make it: ProcessOrder reads
\* Quantity and Price as they come, zero included
SubmitUnvalidated ==
  \E type \in {LimitOrder, MarketOrder}, side \in OrderSides, price \in 0..1, qty \in 0..1 :
    BeginProcessOrder(Order(Len(orders) + 1, "X", type, side, IF type = MarketOrder THEN 0 ELSE price, qty, qty))

NextUnvalidated == SubmitUnvalidated \/ MatchStep \/ FinishProcessOrder \/ Cancel

SpecUnvalidated == Init /\ [][NextUnvalidated]_vars

\* a caller of OrderBook.GetOrder on the book X, between the engine's calls:
\* it keeps what GetOrder returned, the pointer stored in ob.orders (order),
\* and the Order value the pointer led to at that moment (value)
CallGetOrder ==
  \E orderID \in OrderIDs :
    /\ call.op = "idle"
    /\ orderBooks["X"].exists
    /\ GetOrder(orderBooks["X"], orderID).err = ErrNone
    /\ threads' = <<[order |-> GetOrder(orderBooks["X"], orderID).order,
                     value |-> orders[GetOrder(orderBooks["X"], orderID).order]]>>
    /\ UNCHANGED <<orderBooks, orders, trades, call, ret, prior>>

\* initialised LIMIT orders of quantity 1 on the book X
SubmitUnit == SubmitFrom({"X"}, {LimitOrder}, {1}, {1})

NextGet == SubmitUnit \/ MatchStep \/ FinishProcessOrder \/ Cancel \/ CallGetOrder

SpecGet == Init /\ [][NextGet]_vars

NextIds == SubmitAnyId \/ MatchStep \/ FinishProcessOrder \/ Cancel

SpecIds == Init /\ [][NextIds]_vars

\* ---------------------------------------------------- concurrent callers
\* Threads call ProcessOrder concurrently, each for the orders of its list,
\* one after the other.  A thread is "ready" before and between its calls
\* and "locked" from me.mutex.Lock() to the deferred Unlock at the return.
Thread(os) ==
  [orders |-> os, done |-> 0, pc |-> "ready", taker |-> Nil, trades |-> <<>>, results |-> <<>>]

\* the orders a thread may hand in: initialised LIMIT and MARKET orders
Inputs(symbol) ==
  {Order(0, symbol, type, side, IF type = MarketOrder THEN 0 ELSE price, qty, qty) :
     type \in {LimitOrder, MarketOrder}, side \in OrderSides, price \in Prices, qty \in Quantities}

\* a new engine and one thread for each order id, all on the book X
InitThreads ==
  /\ orderBooks = [s \in Symbols |-> NoBook]
  /\ orders = <<>>
  /\ trades = <<>>
  /\ call = Idle
  /\ ret = NoRet
  /\ prior = NoBook
  /\ \E f \in [OrderIDs -> Inputs("X")] :
       threads = [t \in OrderIDs |-> Thread(<<[f[t] EXCEPT !.ID = t]>>)]

\* a new engine and two threads, the first on the book X and the second on
\* the book Y; the first submits the orders 1..k and the second the orders
\* k+1..MaxOrders
InitTwoBooks ==
  /\ orderBooks = [s \in Symbols |-> NoBook]
  /\ orders = <<>>
  /\ trades = <<>>
  /\ call = Idle
  /\ ret = NoRet
  /\ prior = NoBook
  /\ \E k \in 1..(MaxOrders - 1) :
       \E f \in [1..k -> Inputs("X")], g \in [(k + 1)..MaxOrders -> Inputs("Y")] :
         threads = <<Thread([i \in 1..k |-> [f[i] EXCEPT !.ID = i]]),
                     Thread([i \in 1..(MaxOrders - k) |-> [g[k + i] EXCEPT !.ID = k + i]])>>

\* an engine whose ProcessOrder does not take the mutex
EngineMutexFreeAlways(ths) == TRUE

\* me.mutex.Lock() can return: no thread is inside ProcessOrder
EngineMutexFree(ths) == \A t \in DOMAIN ths : ths[t].pc # "locked"

\* the thread's call has returned with the error err and the trades ts
ThreadReturned(th, id, err, ts) ==
  [th EXCEPT !.pc = "ready", !.done = th.done + 1, !.taker = Nil, !.trades = <<>>,
             !.results = Append(th.results, [ID |-> id, err |-> err, trades |-> ts])]

\* thread t enters ProcessOrder with its next order: lock, get or create
\* the book
ThreadBegin(t) ==
  /\ threads[t].pc = "ready"
  /\ threads[t].done < Len(threads[t].orders)
  /\ EngineMutexFree(threads)
  /\ LET o == threads[t].orders[threads[t].done + 1]
     IN /\ orders' = Append(orders, o)
        /\ orderBooks' = IF orderBooks[BookKey(o)].exists THEN orderBooks
                         ELSE [orderBooks EXCEPT ![BookKey(o)] = NewOrderBook(o.Symbol)]
        /\ threads' = [threads EXCEPT ![t].pc = "locked", ![t].taker = Len(orders) + 1]
  /\ UNCHANGED <<trades, call, ret, prior>>

\* thread t runs one iteration of the loop of matchOrder
ThreadMatch(t) ==
  /\ threads[t].pc = "locked"
  /\ LET h == threads[t].taker
         o == orders[h]
         ob == orderBooks[BookKey(o)]
     IN /\ LoopContinues(ob, o, orders)
        /\ LET c == MatchOnce(ob, orders, h)
           IN /\ orders' = c.os
              /\ orderBooks' = [orderBooks EXCEPT ![BookKey(o)] = c.ob]
              /\ IF c.err # ErrNone
                 THEN /\ threads' = [threads EXCEPT ![t] = ThreadReturned(threads[t], o.ID, c.err, <<>>)]
                      /\ UNCHANGED trades
                 ELSE /\ threads' = [threads EXCEPT ![t].trades = Append(threads[t].trades, c.trade)]
                      /\ trades' = Append(trades, c.trade)
  /\ UNCHANGED <<call, ret, prior>>

\* thread t runs ProcessOrder from the end of the loop to the return
ThreadFinish(t) ==
  /\ threads[t].pc = "locked"
  /\ LET h == threads[t].taker
         o == orders[h]
         ob == orderBooks[BookKey(o)]
         r == AfterLoop(ob, orders, h, threads[t].trades)
     IN /\ ~LoopContinues(ob, o, orders)
        /\ orderBooks' = [orderBooks EXCEPT ![BookKey(o)] = r.ob]
        /\ orders' = r.os
        /\ threads' = [threads EXCEPT ![t] = ThreadReturned(threads[t], o.ID, r.err, r.trades)]
  /\ UNCHANGED <<trades, call, ret, prior>>

Begins == \E t \in DOMAIN threads : ThreadBegin(t)

Matches == \E t \in DOMAIN threads : ThreadMatch(t)

Finishes == \E t \in DOMAIN threads : ThreadFinish(t)

NextThreads == Begins \/ Matches \/ Finishes

\* threads on one book
SpecThreads == InitThreads /\ [][NextThreads]_vars

\* threads on two books
SpecTwoBooks == InitTwoBooks /\ [][NextThreads]_vars

\* ------------------------------------------------------------ the locks
\* The calls of the engine at the grain of their mutex operations.  A thread
\* runs its calls one after the other; held lists the locks it holds, in
\* the order it took them: "engine" is me.mutex, a symbol is the ob.mutex
\* of that symbol's book, the mode is "W" for Lock and "R" for RLock.
Caller(ops) ==
  [ops |-> ops, done |-> 0, pc |-> "ready", taker |-> Nil, trades |-> <<>>,
   held |-> <<>>, scan |-> <<>>, results |-> <<>>]

SubmitOp(o) == [op |-> "submit", order |-> o, id |-> o.ID, symbol |-> o.Symbol]

CancelOp(id) == [op |-> "cancel", order |-> Nil, id |-> id, symbol |-> ""]

SnapshotOp(symbol) == [op |-> "snapshot", order |-> Nil, id |-> Nil, symbol |-> symbol]

\* the orders handed in: initialised LIMIT and MARKET orders of quantity 1
\* at the price 1
UnitInputs(symbol) ==
  {Order(0, symbol, type, side, IF type = MarketOrder THEN 0 ELSE 1, 1, 1) :
     type \in {LimitOrder, MarketOrder}, side \in OrderSides}

\* a new engine and three threads: the first submits two orders on X, the
\* second submits one order on Y and reads the snapshot of X, the third
\* cancels an order and reads the snapshot of Y
InitLocks ==
  /\ orderBooks = [s \in Symbols |-> NoBook]
  /\ orders = <<>>
  /\ trades = <<>>
  /\ call = Idle
  /\ ret = NoRet
  /\ prior = NoBook
  /\ \E o1 \in UnitInputs("X"), o2 \in UnitInputs("X"), o3 \in UnitInputs("Y"), id \in OrderIDs :
       threads = <<Caller(<<SubmitOp([o1 EXCEPT !.ID = 1]), SubmitOp([o2 EXCEPT !.ID = 2])>>),
                   Caller(<<SubmitOp([o3 EXCEPT !.ID = 3]), SnapshotOp("X")>>),
                   Caller(<<CancelOp(id), SnapshotOp("Y")>>)>>

\* the modes in which the threads hold the lock l
Holders(ths, l) ==
  {m \in {"W", "R"} : \E u \in DOMAIN ths : \E i \in 1..Len(ths[u].held) :
                        ths[u].held[i] = [lock |-> l, mode |-> m]}

\* sync.RWMutex.Lock returns when nobody holds the lock
CanLock(ths, l) == Holders(ths, l) = {}

\* sync.RWMutex.RLock returns when no writer holds the lock
CanRLock(ths, l) == "W" \notin Holders(ths, l)

Lock(held, l) == Append(held, [lock |-> l, mode |-> "W"])

RLock(held, l) == Append(held, [lock |-> l, mode |-> "R"])

\* a write lock that is never given back
UnlockKept(held, l) == held

Unlock(held, l) == SelectSeq(held, LAMBDA e : e # [lock |-> l, mode |-> "W"])

\* a read lock that is never given back
RUnlockKept(held, l) == held

RUnlock(held, l) == SelectSeq(held, LAMBDA e : e # [lock |-> l, mode |-> "R"])

\* the next call of the thread th
NextOp(th) == th.ops[th.done + 1]

CanCall(th, op) == th.pc = "ready" /\ th.done < Len(th.ops) /\ NextOp(th).op = op

\* the call of the thread th returns err and ts, its deferred unlock of
\* me.mutex done: held is what the thread holds afterwards
CallReturns(th, held, err, ts) ==
  [th EXCEPT !.pc = "ready", !.done = th.done + 1, !.taker = Nil, !.trades = <<>>,
             !.held = held, !.scan = <<>>,
             !.results = Append(th.results, [op |-> NextOp(th).op, err |-> err, trades |-> ts])]

\* ProcessOrder: me.mutex.Lock(), get or create the book
EnterProcessOrder ==
  \E t \in DOMAIN threads :
    /\ CanCall(threads[t], "submit")
    /\ CanLock(threads, "engine")
    /\ LET o == NextOp(threads[t]).order
       IN /\ orders' = Append(orders, o)
          /\ orderBooks' = IF orderBooks[BookKey(o)].exists THEN orderBooks
                           ELSE [orderBooks EXCEPT ![BookKey(o)] = NewOrderBook(o.Symbol)]
          /\ threads' = [threads EXCEPT ![t].pc = "loop", ![t].taker = Len(orders) + 1,
                                        ![t].held = Lock(threads[t].held, "engine")]
    /\ UNCHANGED <<trades, call, ret, prior>>

\* matchOrder, the head of the loop: with remaining quantity the thread
\* enters GetBestAsk / GetBestBid, which takes ob.mutex.RLock(); without,
\* the loop is over
LoopHead ==
  \E t \in DOMAIN threads :
    /\ threads[t].pc = "loop"
    /\ LET o == orders[threads[t].taker]
       IN IF o.RemainingQty > 0
          THEN /\ CanRLock(threads, BookKey(o))
               /\ threads' = [threads EXCEPT ![t].pc = "best", ![t].held = RLock(threads[t].held, BookKey(o))]
          ELSE threads' = [threads EXCEPT ![t].pc = "after"]
    /\ UNCHANGED <<orderBooks, orders, trades, call, ret, prior>>

\* GetBestAsk / GetBestBid returns, its deferred RUnlock done, and the loop
\* breaks or goes on to the trade
ReadBest ==
  \E t \in DOMAIN threads :
    /\ threads[t].pc = "best"
    /\ LET o == orders[threads[t].taker]
           ob == orderBooks[BookKey(o)]
           held == RUnlock(threads[t].held, BookKey(o))
       IN IF Opposite(ob, o).err # ErrNone
          THEN threads' = [threads EXCEPT ![t] = CallReturns(threads[t], Unlock(held, "engine"),
                                                             Opposite(ob, o).err, <<>>)]
          ELSE threads' = [threads EXCEPT ![t].held = held,
                                          ![t].pc = IF LoopContinues(ob, o, orders) THEN "fill" ELSE "after"]
    /\ UNCHANGED <<orderBooks, orders, trades, call, ret, prior>>

\* matchOrder from the trade to the status updates of the two orders
Fill ==
  \E t \in DOMAIN threads :
    /\ threads[t].pc = "fill"
    /\ LET o == orders[threads[t].taker]
           f == FillOnce(orderBooks[BookKey(o)], orders, threads[t].taker)
       IN /\ orders' = f.os
          /\ trades' = Append(trades, f.trade)
          /\ threads' = [threads EXCEPT ![t].trades = Append(threads[t].trades, f.trade),
                                        ![t].pc = IF f.filled THEN "remove" ELSE "loop"]
    /\ UNCHANGED <<orderBooks, call, ret, prior>>

\* the maker handled last by the thread th
LastMaker(th) == th.trades[Len(th.trades)].maker

\* matchOrder removes the filled maker: ob.CancelOrder takes ob.mutex.Lock()
EnterRemoveFilled ==
  \E t \in DOMAIN threads :
    /\ threads[t].pc = "remove"
    /\ CanLock(threads, BookKey(orders[threads[t].taker]))
    /\ threads' = [threads EXCEPT ![t].pc = "removing",
                                  ![t].held = Lock(threads[t].held, BookKey(orders[threads[t].taker]))]
    /\ UNCHANGED <<orderBooks, orders, trades, call, ret, prior>>

\* ob.CancelOrder on the filled maker, to its return
RemoveFilled ==
  \E t \in DOMAIN threads :
    /\ threads[t].pc = "removing"
    /\ LET o == orders[threads[t].taker]
           c == OBCancelOrder(orderBooks[BookKey(o)], orders, orders[LastMaker(threads[t])].ID)
           held == Unlock(threads[t].held, BookKey(o))
       IN /\ orders' = c.os
          /\ orderBooks' = [orderBooks EXCEPT ![BookKey(o)] = c.ob]
          /\ threads' = IF c.err # ErrNone
                        THEN [threads EXCEPT ![t] = CallReturns(threads[t], Unlock(held, "engine"), c.err, <<>>)]
                        ELSE [threads EXCEPT ![t].pc = "loop", ![t].held = held]
    /\ UNCHANGED <<trades, call, ret, prior>>

\* ProcessOrder / processMarketOrder after matchOrder: a MARKET order
\* returns, rejected if it has remaining quantity; another order returns if
\* it is filled and otherwise enters ob.AddOrder, which takes ob.mutex.Lock()
AfterMatching ==
  \E t \in DOMAIN threads :
    /\ threads[t].pc = "after"
    /\ LET h == threads[t].taker
           o == orders[h]
           ts == threads[t].trades
           released == Unlock(threads[t].held, "engine")
       IN IF o.Type = MarketOrder
          THEN IF o.RemainingQty > 0
               THEN /\ orders' = [orders EXCEPT ![h].Status = OrderStatusRejected]
                    /\ threads' = [threads EXCEPT ![t] = CallReturns(threads[t], released, ErrMarketUnfilled, ts)]
               ELSE /\ threads' = [threads EXCEPT ![t] = CallReturns(threads[t], released, ErrNone, ts)]
                    /\ UNCHANGED orders
          ELSE IF o.RemainingQty > 0
               THEN /\ CanLock(threads, BookKey(o))
                    /\ threads' = [threads EXCEPT ![t].pc = "adding",
                                                  ![t].held = Lock(threads[t].held, BookKey(o))]
                    /\ UNCHANGED orders
               ELSE /\ threads' = [threads EXCEPT ![t] = CallReturns(threads[t], released, ErrNone, ts)]
                    /\ UNCHANGED orders
    /\ UNCHANGED <<orderBooks, trades, call, ret, prior>>

\* ob.AddOrder to its return, and the return of ProcessOrder
AddResidual ==
  \E t \in DOMAIN threads :
    /\ threads[t].pc = "adding"
    /\ LET h == threads[t].taker
           o == orders[h]
           a == AddOrder(orderBooks[BookKey(o)], orders, h)
           held == Unlock(Unlock(threads[t].held, BookKey(o)), "engine")
       IN /\ orders' = a.os
          /\ orderBooks' = [orderBooks EXCEPT ![BookKey(o)] = a.ob]
          /\ threads' = [threads EXCEPT ![t] =
               CallReturns(threads[t], held, a.err, IF a.err # ErrNone THEN <<>> ELSE threads[t].trades)]
    /\ UNCHANGED <<trades, call, ret, prior>>

\* a range that stops after the first book it visits
ScanOrdersOneBook ==
  LET bs == {s \in Symbols : orderBooks[s].exists}
  IN {q \in UNION {[1..n -> bs] : n \in 0..1} : Len(q) = min(1, Cardinality(bs))}

\* the orders in which a range over the map me.orderBooks can visit the books
ScanOrders ==
  LET bs == {s \in Symbols : orderBooks[s].exists}
  IN {q \in UNION {[1..n -> bs] : n \in 0..Cardinality(bs)} :
        Len(q) = Cardinality(bs) /\ \A i, j \in 1..Len(q) : i # j => q[i] # q[j]}

\* CancelOrder: me.mutex.Lock(), the range over the books begins
EnterCancelOrder ==
  \E t \in DOMAIN threads :
    /\ CanCall(threads[t], "cancel")
    /\ CanLock(threads, "engine")
    /\ \E q \in ScanOrders :
         threads' = [threads EXCEPT ![t].pc = "scan", ![t].scan = q,
                                    ![t].held = Lock(threads[t].held, "engine")]
    /\ UNCHANGED <<orderBooks, orders, trades, call, ret, prior>>

\* CancelOrder, the head of the range: with a book left the thread enters
\* ob.GetOrder, which takes ob.mutex.RLock(); without, the id is not found
ScanHead ==
  \E t \in DOMAIN threads :
    /\ threads[t].pc = "scan"
    /\ IF threads[t].scan = <<>>
       THEN threads' = [threads EXCEPT ![t] =
              CallReturns(threads[t], Unlock(threads[t].held, "engine"), ErrNotFound, <<>>)]
       ELSE /\ CanRLock(threads, Head(threads[t].scan))
            /\ threads' = [threads EXCEPT ![t].pc = "lookup",
                                          ![t].held = RLock(threads[t].held, Head(threads[t].scan))]
    /\ UNCHANGED <<orderBooks, orders, trades, call, ret, prior>>

\* ob.GetOrder returns, its deferred RUnlock done: the book knows the id or
\* the range goes on
ScanLookup ==
  \E t \in DOMAIN threads :
    /\ threads[t].pc = "lookup"
    /\ LET s == Head(threads[t].scan)
           held == RUnlock(threads[t].held, s)
       IN IF GetOrder(orderBooks[s], NextOp(threads[t]).id).err = ErrNone
          THEN threads' = [threads EXCEPT ![t].pc = "cancel", ![t].held = held]
          ELSE threads' = [threads EXCEPT ![t].pc = "scan", ![t].held = held,
                                          ![t].scan = Tail(threads[t].scan)]
    /\ UNCHANGED <<orderBooks, orders, trades, call, ret, prior>>

\* CancelOrder enters ob.CancelOrder, which takes ob.mutex.Lock()
EnterCancelFound ==
  \E t \in DOMAIN threads :
    /\ threads[t].pc = "cancel"
    /\ CanLock(threads, Head(threads[t].scan))
    /\ threads' = [threads EXCEPT ![t].pc = "cancelling",
                                  ![t].held = Lock(threads[t].held, Head(threads[t].scan))]
    /\ UNCHANGED <<orderBooks, orders, trades, call, ret, prior>>

\* ob.CancelOrder to its return, and the return of CancelOrder
CancelFound ==
  \E t \in DOMAIN threads :
    /\ threads[t].pc = "cancelling"
    /\ LET s == Head(threads[t].scan)
           c == OBCancelOrder(orderBooks[s], orders, NextOp(threads[t]).id)
       IN /\ orders' = c.os
          /\ orderBooks' = [orderBooks EXCEPT ![s] = c.ob]
          /\ threads' = [threads EXCEPT ![t] =
               CallReturns(threads[t], Unlock(Unlock(threads[t].held, s), "engine"), c.err, <<>>)]
    /\ UNCHANGED <<trades, call, ret, prior>>

\* GetOrderBook: me.mutex.RLock()
EnterGetOrderBook ==
  \E t \in DOMAIN threads :
    /\ CanCall(threads[t], "snapshot")
    /\ CanRLock(threads, "engine")
    /\ threads' = [threads EXCEPT ![t].pc = "find", ![t].held = RLock(threads[t].held, "engine")]
    /\ UNCHANGED <<orderBooks, orders, trades, call, ret, prior>>

\* GetOrderBook looks the book up: without a book it returns, with one it
\* enters ob.GetOrderBookSnapshot, which takes ob.mutex.RLock()
FindBook ==
  \E t \in DOMAIN threads :
    /\ threads[t].pc = "find"
    /\ LET s == NextOp(threads[t]).symbol
       IN IF ~orderBooks[s].exists
          THEN threads' = [threads EXCEPT ![t] =
                 CallReturns(threads[t], RUnlock(threads[t].held, "engine"), ErrNotFound, <<>>)]
          ELSE /\ CanRLock(threads, s)
               /\ threads' = [threads EXCEPT ![t].pc = "snapshot", ![t].held = RLock(threads[t].held, s)]
    /\ UNCHANGED <<orderBooks, orders, trades, call, ret, prior>>

\* ob.GetOrderBookSnapshot to its return, and the return of GetOrderBook
TakeSnapshot ==
  \E t \in DOMAIN threads :
    /\ threads[t].pc = "snapshot"
    /\ LET s == NextOp(threads[t]).symbol
       IN threads' = [threads EXCEPT ![t] =
            CallReturns(threads[t], RUnlock(RUnlock(threads[t].held, s), "engine"),
                        GetOrderBookSnapshot(orderBooks[s], s).err, <<>>)]
    /\ UNCHANGED <<orderBooks, orders, trades, call, ret, prior>>

NextLocks ==
  \/ EnterProcessOrder \/ LoopHead \/ ReadBest \/ Fill \/ EnterRemoveFilled \/ RemoveFilled
  \/ AfterMatching \/ AddResidual
  \/ EnterCancelOrder \/ ScanHead \/ ScanLookup \/ EnterCancelFound \/ CancelFound
  \/ EnterGetOrderBook \/ FindBook \/ TakeSnapshot

\* the engine under concurrent submits, cancels and snapshots
SpecLocks == InitLocks /\ [][NextLocks]_vars

\* the same under a scheduler that lets a thread run whenever one can take a
\* step: a goroutine that is not blocked on a mutex is eventually scheduled
SpecLocksFair == SpecLocks /\ WF_vars(NextLocks)

\* ------------------------------------------- single-threaded execution
\* matchOrder on the taker t and the code after it, run to the return:
\* made are the trades the loop emitted
RECURSIVE MatchLoop(_, _, _, _)
MatchLoop(ob, os, t, ts) ==
  IF LoopContinues(ob, os[t], os)
  THEN LET c == MatchOnce(ob, os, t)
       IN IF c.err # ErrNone
          THEN [ob |-> c.ob, os |-> c.os, err |-> c.err, trades |-> <<>>, made |-> ts]
          ELSE MatchLoop(c.ob, c.os, t, Append(ts, c.trade))
  ELSE AfterLoop(ob, os, t, ts) @@ [made |-> ts]

\* an engine nobody has called yet
NewMatchingEngine ==
  [orderBooks |-> [s \in Symbols |-> NoBook], orders |-> <<>>, trades |-> <<>>, results |-> <<>>]

\* one whole call of ProcessOrder on the engine state st
ProcessOrder(st, o) ==
  LET books == IF st.orderBooks[BookKey(o)].exists THEN st.orderBooks
               ELSE [st.orderBooks EXCEPT ![BookKey(o)] = NewOrderBook(o.Symbol)]
      os == Append(st.orders, o)
      r == MatchLoop(books[BookKey(o)], os, Len(os), <<>>)
  IN [orderBooks |-> [books EXCEPT ![BookKey(o)] = r.ob],
      orders |-> r.os,
      trades |-> st.trades \o r.made,
      results |-> Append(st.results, [ID |-> o.ID, err |-> r.err, trades |-> r.trades])]

\* the calls of the schedule sq, one after the other, by one caller: sq
\* names, call by call, the list whose next order is submitted
RECURSIVE SerialRun(_, _, _, _)
SerialRun(st, lists, pos, sq) ==
  IF sq = <<>> THEN st
  ELSE LET t == Head(sq)
       IN SerialRun(ProcessOrder(st, lists[t][pos[t] + 1]), lists, [pos EXCEPT ![t] = pos[t] + 1], Tail(sq))

\* ---------------------------------------------------------- two runs
\* The engine receives submits and cancels, and threads keeps the same calls
\* as a second caller makes them on a second engine: the same orders, but
\* for their UserID.
Owners == {"a", "b"}

Owned(o, u) == [o EXCEPT !.UserID = u]

\* ProcessOrder up to the matching loop for a LIMIT order of quantity 1 of
\* the owner u; the second caller submits it for the owner v
SubmitOwned ==
  \E side \in OrderSides, price \in Prices, u \in Owners, v \in Owners :
    LET o == Order(Len(orders) + 1, "X", LimitOrder, side, price, 1, 1)
    IN /\ call.op = "idle"
       /\ Len(orders) < MaxOrders
       /\ Len(threads) < MaxCalls
       /\ orders' = Append(orders, Owned(o, u))
       /\ orderBooks' = IF orderBooks[BookKey(o)].exists THEN orderBooks
                        ELSE [orderBooks EXCEPT ![BookKey(o)] = NewOrderBook(o.Symbol)]
       /\ call' = [op |-> "submit", taker |-> Len(orders) + 1, trades |-> <<>>]
       /\ prior' = orderBooks[BookKey(o)]
       /\ threads' = Append(threads, SubmitOp(Owned(o, v)))
       /\ UNCHANGED <<trades, ret>>

\* MatchingEngine.CancelOrder; the second caller makes the same cancel
CancelOwned ==
  \E orderID \in OrderIDs :
    /\ call.op = "idle"
    /\ Len(threads) < MaxCalls
    /\ IF \E s \in Symbols : orderBooks[s].exists /\ GetOrder(orderBooks[s], orderID).err = ErrNone
       THEN \E s \in Symbols :
              /\ orderBooks[s].exists
              /\ GetOrder(orderBooks[s], orderID).err = ErrNone
              /\ LET c == OBCancelOrder(orderBooks[s], orders, orderID)
                 IN /\ orders' = c.os
                    /\ orderBooks' = [orderBooks EXCEPT ![s] = c.ob]
                    /\ ret' = [op |-> "cancel", err |-> c.err, order |-> orderID, trades |-> <<>>]
       ELSE /\ ret' = [op |-> "cancel", err |-> ErrNotFound, order |-> orderID, trades |-> <<>>]
            /\ UNCHANGED <<orders, orderBooks>>
    /\ prior' = NoBook
    /\ threads' = Append(threads, CancelOp(orderID))
    /\ UNCHANGED <<trades, call>>

NextOwners == SubmitOwned \/ MatchStep \/ FinishProcessOrder \/ CancelOwned

SpecOwners == Init /\ [][NextOwners]_vars

\* one whole call of MatchingEngine.CancelOrder on the engine state st
CancelOrderOn(st, orderID) ==
  IF \E s \in Symbols : st.orderBooks[s].exists /\ GetOrder(st.orderBooks[s], orderID).err = ErrNone
  THEN LET s == CHOOSE x \in Symbols :
                  st.orderBooks[x].exists /\ GetOrder(st.orderBooks[x], orderID).err = ErrNone
           c == OBCancelOrder(st.orderBooks[s], st.orders, orderID)
       IN [orderBooks |-> [st.orderBooks EXCEPT ![s] = c.ob], orders |-> c.os, trades |-> st.trades,
           results |-> Append(st.results, [ID |-> orderID, err |-> c.err, trades |-> <<>>])]
  ELSE [st EXCEPT !.results = Append(st.results, [ID |-> orderID, err |-> ErrNotFound, trades |-> <<>>])]

\* the calls ops, one after the other, on the engine state st
RECURSIVE Replay(_, _)
Replay(st, ops) ==
  IF ops = <<>> THEN st
  ELSE Replay(IF Head(ops).op = "submit" THEN ProcessOrder(st, Head(ops).order)
              ELSE CancelOrderOn(st, Head(ops).id),
              Tail(ops))

\* ------------------------------------------------------------- properties
Handles == 1..Len(orders)

Books == {s \in Symbols : orderBooks[s].exists}

AtRest == call.op = "idle"

SeqRange(q) == {q[k] : k \in 1..Len(q)}

\* the order objects queued on one side of a book
QueuedOn(ob, side) == UNION {SeqRange(SideLevels(ob, side)[k].orders) : k \in 1..Len(SideLevels(ob, side))}

Queued == UNION {QueuedOn(orderBooks[s], side) : s \in Books, side \in OrderSides}

RECURSIVE SumRemaining(_, _)
SumRemaining(os, q) ==
  IF q = <<>> THEN 0 ELSE os[Head(q)].RemainingQty + SumRemaining(os, Tail(q))

\* total quantity of the trades of ts that name the order id as buy or sell order
RECURSIVE TradedQty(_, _)
TradedQty(ts, id) ==
  IF ts = <<>> THEN 0
  ELSE (IF Head(ts).BuyOrderID = id \/ Head(ts).SellOrderID = id THEN Head(ts).Quantity ELSE 0)
       + TradedQty(Tail(ts), id)

OtherSide(side) == IF side = BuyOrder THEN SellOrder ELSE BuyOrder

\* the order object with this ID (ids are unique in Spec and SpecBooks)
ByID(os, id) == CHOOSE h \in 1..Len(os) : os[h].ID = id

\* this step emits a trade; the trade
Emits == Len(trades') = Len(trades) + 1

Emitted == trades'[Len(trades')]

\* C1: after every submit or cancel, each price level's volume equals the
\* sum of RemainingQty of the orders queued at that level (both sides).
C1_VolumeIsSumOfRemaining ==
  AtRest => \A s \in Books : \A side \in OrderSides :
    \A k \in 1..Len(SideLevels(orderBooks[s], side)) :
      LET level == SideLevels(orderBooks[s], side)[k]
      IN level.volume = SumRemaining(orders, level.orders)

\* C2: at every point, for every order, the quantities of the emitted
\* trades naming it as buy or sell order add up to its FilledQty.
C2_FilledIsTraded ==
  \A h \in Handles : TradedQty(trades, orders[h].ID) = orders[h].FilledQty

\* the taker of the call in flight, once the matching loop can run on it
BeingMatched ==
  IF call.op = "submit" /\ (orders[call.taker].RemainingQty > 0 \/ call.trades # <<>>)
  THEN {call.taker} ELSE {}

\* C3: every live order (the taker being matched, and every order queued on
\* a book) has FilledQty + RemainingQty = Quantity, also once a partially
\* filled taker has been inserted into the book.
C3_FilledPlusRemaining ==
  \A h \in Queued \cup BeingMatched :
    orders[h].FilledQty + orders[h].RemainingQty = orders[h].Quantity

\* a submit has returned after trading and its taker now rests on the book
C3_Witness ==
  /\ AtRest
  /\ ret.op = "submit"
  /\ ret.trades # <<>>
  /\ ret.order \in Queued

\* C4: FilledQty of an order never decreases from one state to the next.
C4_FilledMonotonic ==
  [][\A h \in Handles : h <= Len(orders') => orders'[h].FilledQty >= orders[h].FilledQty]_vars

\* C5: for every order, the trades it takes part in never add up to more
\* than its original Quantity.
C5_NoOverfill ==
  \A h \in Handles : TradedQty(trades, orders[h].ID) <= orders[h].Quantity

\* C6: every trade of a LIMIT taker satisfies the cross condition: a SELL
\* taker's limit is at most the bid's price, a BUY taker's limit is at
\* least the ask's price.
C6_CrossCondition ==
  \A i \in 1..Len(trades) :
    LET taker == orders[trades[i].taker]
        maker == orders[trades[i].maker]
    IN taker.Type = LimitOrder =>
         /\ taker.Side = SellOrder => (maker.Side = BuyOrder /\ taker.Price <= maker.Price)
         /\ taker.Side = BuyOrder => (maker.Side = SellOrder /\ maker.Price <= taker.Price)

\* a LIMIT BUY taker has traded with an ask priced below its limit while a
\* LIMIT SELL order, admitted after a lower bid, rests without having traded
C6_Witness ==
  /\ \E i \in 1..Len(trades) :
       /\ orders[trades[i].taker].Type = LimitOrder
       /\ orders[trades[i].taker].Side = BuyOrder
       /\ orders[trades[i].maker].Price < orders[trades[i].taker].Price
  /\ \E h \in Queued :
       /\ orders[h].Type = LimitOrder /\ orders[h].Side = SellOrder
       /\ TradedQty(trades, orders[h].ID) = 0

\* C7: every emitted trade pairs a BUY order and a SELL order of the same
\* symbol; one is the incoming taker, the other was resting on the opposite
\* side of that symbol's book; the trade price is the resting order's price.
C7_TradePairsTakerAndMaker ==
  [][Emits =>
       LET t == Emitted
           b == ByID(orders, t.BuyOrderID)
           s == ByID(orders, t.SellOrderID)
           taker == call.taker
           maker == IF b = taker THEN s ELSE b
       IN /\ orders[b].Side = BuyOrder
          /\ orders[s].Side = SellOrder
          /\ orders[b].Symbol = t.Symbol
          /\ orders[s].Symbol = t.Symbol
          /\ taker \in {b, s}
          /\ maker # taker
          /\ maker \in QueuedOn(orderBooks[t.Symbol], OtherSide(orders[taker].Side))
          /\ t.Price = orders[maker].Price
  ]_vars

\* a trade on book Y at a price that is not the taker's limit, while an
\* order of the maker's side, admitted before the taker, rests on book X
C7_Witness ==
  \E i \in 1..Len(trades) :
    /\ trades[i].Symbol = "Y"
    /\ orders[trades[i].taker].Type = LimitOrder
    /\ orders[trades[i].taker].Price # trades[i].Price
    /\ \E h \in QueuedOn(orderBooks["X"], orders[trades[i].maker].Side) : h < trades[i].taker

\* the queue of the level of ob that holds the order object h (<<>> if none)
QueueHolding(ob, side, h) ==
  LET pl == SideLevels(ob, side)
  IN IF \E k \in 1..Len(pl) : h \in SeqRange(pl[k].orders)
     THEN pl[CHOOSE k \in 1..Len(pl) : h \in SeqRange(pl[k].orders)].orders
     ELSE <<>>

\* q without the order object h
RECURSIVE Without(_, _)
Without(q, h) ==
  IF q = <<>> THEN <<>>
  ELSE IF Head(q) = h THEN Without(Tail(q), h) ELSE <<Head(q)>> \o Without(Tail(q), h)

\* C8: makers of one price level are consumed in admission order (handles
\* grow with admission): when a trade fills maker B, B is queued at its
\* price and no order admitted earlier is queued at that level; the orders
\* behind B stay queued, in their order.
C8_FifoWithinLevel ==
  [][Emits =>
       LET B == Emitted.maker
           side == orders[B].Side
           before == QueueHolding(orderBooks[Emitted.Symbol], side, B)
           after == QueueHolding(orderBooks'[Emitted.Symbol], side, B)
           level == SideLevels(orderBooks'[Emitted.Symbol], side)
                      [FindLevel(SideLevels(orderBooks'[Emitted.Symbol], side), orders[B].Price)]
       IN /\ B \in SeqRange(before)
          /\ \A A \in SeqRange(before) : orders[A].Price = orders[B].Price /\ A >= B
          /\ level.orders = IF orders'[B].RemainingQty = 0 THEN Without(before, B) ELSE before
  ]_vars

\* A then B rest at one price, a later taker traded with A, and B still
\* rests untouched
C8_Witness ==
  \E i \in 1..Len(trades) : \E B \in Queued :
    /\ trades[i].maker < B /\ B < trades[i].taker
    /\ orders[B].Side = orders[trades[i].maker].Side
    /\ orders[B].Price = orders[trades[i].maker].Price
    /\ orders[B].FilledQty = 0
    /\ orders[trades[i].taker].RemainingQty = 0
    /\ Len(trades) = 1

\* p is a strictly better price than q for a resting order of this side
Better(side, p, q) == IF side = BuyOrder THEN p > q ELSE p < q

\* C9: when a trade is emitted against a maker resting at price p, no order
\* with remaining > 0 is queued on the maker's side at a strictly better
\* price at that moment.
C9_PricePriority ==
  [][Emits =>
       LET m == Emitted.maker
       IN \A h \in QueuedOn(orderBooks[Emitted.Symbol], orders[m].Side) :
            orders[h].RemainingQty > 0 => ~Better(orders[m].Side, orders[h].Price, orders[m].Price)
  ]_vars

\* a worse-priced order was admitted first, a better-priced one after it,
\* and a later taker traded with the better one while the worse one rested
C9_Witness ==
  \E i \in 1..Len(trades) : \E h \in Queued :
    /\ h < trades[i].maker /\ trades[i].maker < trades[i].taker
    /\ orders[h].Side = orders[trades[i].maker].Side
    /\ Better(orders[h].Side, orders[trades[i].maker].Price, orders[h].Price)
    /\ orders[h].FilledQty = 0

\* an order queued opposite to the order o at a price that crosses o's limit
Crossing(ob, o) ==
  {h \in QueuedOn(ob, OtherSide(o.Side)) :
     IF o.Side = BuyOrder THEN orders[h].Price <= o.Price ELSE orders[h].Price >= o.Price}

\* C10: when submit of a LIMIT order returns, the taker's remaining is 0 or
\* no order rests on the opposite side at a price crossing its limit.
C10_SweepsCrossingLevels ==
  (AtRest /\ ret.op = "submit" /\ ret.order # Nil /\ orders[ret.order].Type = LimitOrder) =>
    \/ orders[ret.order].RemainingQty = 0
    \/ Crossing(orderBooks[orders[ret.order].Symbol], orders[ret.order]) = {}

\* the orders resting on one side of a book at the price p
RestingAt(ob, side, p) == {h \in QueuedOn(ob, side) : orders[h].Price = p}

RECURSIVE SumRemainingOf(_, _)
SumRemainingOf(os, hs) ==
  IF hs = {} THEN 0
  ELSE LET h == CHOOSE x \in hs : TRUE IN os[h].RemainingQty + SumRemainingOf(os, hs \ {h})

SnapshotSide(snapshot, side) == IF side = BuyOrder THEN snapshot.Bids ELSE snapshot.Asks

\* C11: the snapshot of a book has, on each side, exactly one entry for each
\* price at which an order rests and none for any other price, and the entry
\* carries the price, the sum of RemainingQty of the orders resting at that
\* price and the number of those orders.
C11_SnapshotEntries ==
  AtRest => \A s \in Books : \A side \in OrderSides :
    LET es == SnapshotSide(GetOrderBook(s).snapshot, side)
        ob == orderBooks[s]
    IN /\ GetOrderBook(s).err = ErrNone
       /\ \A p \in Prices :
            Cardinality({k \in 1..Len(es) : es[k].Price = p})
              = IF RestingAt(ob, side, p) = {} THEN 0 ELSE 1
       /\ \A k \in 1..Len(es) :
            /\ es[k].Price \in Prices
            /\ es[k].Quantity = SumRemainingOf(orders, RestingAt(ob, side, es[k].Price))
            /\ es[k].Orders = Cardinality(RestingAt(ob, side, es[k].Price))

\* the step on which ProcessOrder returns
Returns == call.op = "submit" /\ call'.op = "idle"

\* C12: when submit of a MARKET order returns and the trades of the call
\* add up to less than the order's quantity, the call returns the reject
\* error together with those trades, the order is stored in no book, and
\* the order has status REJECTED, FilledQty = the traded quantity and
\* RemainingQty = Quantity minus the traded quantity.
C12_MarketResidualRejected ==
  [][(Returns /\ orders[call.taker].Type = MarketOrder
        /\ TradedQty(call.trades, orders[call.taker].ID) < orders[call.taker].Quantity) =>
       LET o == orders[call.taker]
           traded == TradedQty(call.trades, o.ID)
       IN /\ ret'.op = "submit"
          /\ ret'.err = ErrMarketUnfilled
          /\ ret'.trades = call.trades
          /\ \A s \in Symbols : orderBooks'[s].orders[o.ID] = Nil
          /\ \A s \in Symbols : \A side \in OrderSides :
               \A h \in QueuedOn(orderBooks'[s], side) : orders'[h].ID # o.ID
          /\ ret'.order # Nil =>
               /\ orders'[ret'.order].Status = OrderStatusRejected
               /\ orders'[ret'.order].FilledQty = traded
               /\ orders'[ret'.order].RemainingQty = o.Quantity - traded]_vars

\* C13: when submit of a LIMIT order returns and the order has remaining
\* quantity after matching, the order is queued on its own side in the level
\* of its limit price with RemainingQty = Quantity minus the quantity it
\* traded, and its status is PARTIAL if it traded and NEW otherwise.
C13_LimitResidualRests ==
  [][(Returns /\ orders[call.taker].Type = LimitOrder /\ orders[call.taker].RemainingQty > 0) =>
       LET t == call.taker
           o == orders[t]
           traded == TradedQty(call.trades, o.ID)
           pl == SideLevels(orderBooks'[o.Symbol], o.Side)
       IN /\ ret'.err = ErrNone
          /\ ret'.order = t
          /\ \E k \in 1..Len(pl) : pl[k].price = o.Price /\ t \in SeqRange(pl[k].orders)
          /\ orders'[t].RemainingQty = o.Quantity - traded
          /\ orders'[t].Status = IF traded > 0 THEN OrderStatusPartial ELSE OrderStatusNew]_vars

\* the step of a cancel of the order id
Cancels(id) == call.op = "idle" /\ call'.op = "idle" /\ ret'.op = "cancel" /\ ret'.order = id

\* the populated levels of one side of a book: price, queue and volume
Populated(ob, side) ==
  {SideLevels(ob, side)[k] : k \in {j \in 1..Len(SideLevels(ob, side)) : SideLevels(ob, side)[j].orders # <<>>}}

\* the ids a book's lookup holds
Known(ob) == {id \in OrderIDs : ob.orders[id] # Nil}

\* the last operation was the submit of a LIMIT order that crossed nothing
\* in the book it found (prior) and now rests
RestsUncrossed ==
  /\ ret.op = "submit"
  /\ ret.err = ErrNone
  /\ ret.trades = <<>>
  /\ ret.order # Nil
  /\ orders[ret.order].Type = LimitOrder
  /\ ret.order \in Queued
  /\ Crossing(prior, orders[ret.order]) = {}

\* C14: when the submit of a non-crossing LIMIT order is followed by the
\* cancel of that order, the book is as it was before the submit: on both
\* sides the same populated levels with the same queues and volumes, and the
\* same ids in the lookup.
C14_SubmitCancelRoundTrip ==
  [][\A id \in OrderIDs :
       (Cancels(id) /\ RestsUncrossed /\ orders[ret.order].ID = id) =>
         LET after == orderBooks'[orders[ret.order].Symbol]
         IN /\ ret'.err = ErrNone
            /\ \A side \in OrderSides : Populated(after, side) = Populated(prior, side)
            /\ Known(after) = Known(prior)]_vars

\* C15: after every submit or cancel, the ids in a book's lookup are exactly
\* the ids of the orders queued on the book, and the lookup leads to the
\* queued order.
C15_LookupIsResting ==
  AtRest => \A s \in Books :
    LET ob == orderBooks[s]
        resting == QueuedOn(ob, BuyOrder) \cup QueuedOn(ob, SellOrder)
    IN /\ Known(ob) = {orders[h].ID : h \in resting}
       /\ \A h \in resting : ob.orders[orders[h].ID] = h

\* the order object is off its book because a cancel took it off (a filled
\* maker leaves with RemainingQty 0)
CancelledByCancel(o) == o.Status = OrderStatusCancelled /\ o.RemainingQty > 0

C17_CancelOfTerminal ==
  [][\A id \in OrderIDs :
       (Cancels(id) /\ \E h \in Handles :
                         /\ orders[h].ID = id
                         /\ orders[h].Status \in {OrderStatusFilled, OrderStatusCancelled, OrderStatusRejected}) =>
         /\ ret'.err = ErrAlreadyCancelled
         /\ orderBooks' = orderBooks
         /\ orders' = orders]_vars

\* C18: a cancel of an id that no book's lookup holds returns the not-found
\* error and changes no book, no order and no trade.
C18_CancelOfUnknown ==
  [][\A id \in OrderIDs :
       (Cancels(id) /\ \A s \in Symbols : ~orderBooks[s].exists \/ orderBooks[s].orders[id] = Nil) =>
         /\ ret'.err = ErrNotFound
         /\ orderBooks' = orderBooks
         /\ orders' = orders
         /\ trades' = trades]_vars

\* a cancel of an unknown id has returned while orders rest on a book
C18_Witness ==
  /\ AtRest
  /\ ret.op = "cancel"
  /\ ret.err = ErrNotFound
  /\ \A s \in Symbols : ~orderBooks[s].exists \/ orderBooks[s].orders[ret.order] = Nil
  /\ Queued # {}

\* every thread has made all its calls
AllDone ==
  /\ threads # <<>>
  /\ \A t \in DOMAIN threads : threads[t].pc = "ready" /\ threads[t].done = Len(threads[t].orders)

\* the lists of orders the threads submit; those of them on the book s
Lists == [t \in DOMAIN threads |-> threads[t].orders]

OnBook(o, s) == o.Symbol = s

OwnLists(s) == [t \in DOMAIN threads |-> SelectSeq(threads[t].orders, LAMBDA o : OnBook(o, s))]

RECURSIVE TotalLen(_, _)
TotalLen(lists, ts) ==
  IF ts = {} THEN 0
  ELSE LET t == CHOOSE x \in ts : TRUE IN Len(lists[t]) + TotalLen(lists, ts \ {t})

\* the serial orders of the calls: every list is submitted in its own order
Schedules(lists) ==
  {sq \in [1..TotalLen(lists, DOMAIN lists) -> DOMAIN lists] :
     \A t \in DOMAIN lists : Cardinality({i \in DOMAIN sq : sq[i] = t}) = Len(lists[t])}

Serial(lists, sq) == SerialRun(NewMatchingEngine, lists, [t \in DOMAIN lists |-> 0], sq)

\* what an execution leaves behind, with order ids in the place of the
\* order objects: a book, a trade, a call's result
IdsOf(os, q) == [k \in 1..Len(q) |-> os[q[k]].ID]

LevelsView(os, pl) ==
  [k \in 1..Len(pl) |-> [price |-> pl[k].price, orders |-> IdsOf(os, pl[k].orders), volume |-> pl[k].volume]]

BookView(os, ob) ==
  [symbol |-> ob.symbol, exists |-> ob.exists,
   bids |-> LevelsView(os, ob.bids), asks |-> LevelsView(os, ob.asks),
   orders |-> [id \in OrderIDs |-> IF ob.orders[id] = Nil THEN Nil ELSE os[ob.orders[id]].ID]]

TradeView(tr) ==
  [Symbol |-> tr.Symbol, Price |-> tr.Price, Quantity |-> tr.Quantity,
   BuyOrderID |-> tr.BuyOrderID, SellOrderID |-> tr.SellOrderID]

TradesView(ts) == [k \in 1..Len(ts) |-> TradeView(ts[k])]

ResultsView(rs) == {[ID |-> rs[k].ID, err |-> rs[k].err, trades |-> TradesView(rs[k].trades)] : k \in 1..Len(rs)}

\* the outcome for the book s: the book, the orders submitted to it, the
\* trades on it and the results of the calls on it
Outcome(st, s) ==
  [book |-> BookView(st.orders, st.orderBooks[s]),
   orders |-> {st.orders[h] : h \in {x \in 1..Len(st.orders) : st.orders[x].Symbol = s}},
   trades |-> TradesView(SelectSeq(st.trades, LAMBDA tr : tr.Symbol = s)),
   results |-> {r \in ResultsView(st.results) : \E h \in 1..Len(st.orders) : st.orders[h].ID = r.ID /\ st.orders[h].Symbol = s}]

RECURSIVE Concat(_, _)
Concat(f, ts) ==
  IF ts = {} THEN <<>>
  ELSE LET t == CHOOSE x \in ts : \A y \in ts : x <= y IN f[t] \o Concat(f, ts \ {t})

\* the engine as the threads left it
Reached ==
  [orderBooks |-> orderBooks, orders |-> orders, trades |-> trades,
   results |-> Concat([t \in DOMAIN threads |-> threads[t].results], DOMAIN threads)]

\* C19: when all threads have returned from their concurrent submits, some
\* serial order of the same submits, run by a single caller on a new engine,
\* gives every call the same returned trades and error and leaves every book,
\* every order and the sequence of trades as the threads left them.
C19_Linearisable ==
  AllDone => \E sq \in Schedules(Lists) :
    \A s \in Symbols : Outcome(Serial(Lists, sq), s) = Outcome(Reached, s)

\* three threads have submitted to the book X, trades were made, and the
\* submits in the order of the thread numbers would have ended otherwise
C19_Witness ==
  /\ AllDone
  /\ Len(threads) = MaxOrders
  /\ \A h \in Handles : orders[h].Symbol = "X"
  /\ trades # <<>>
  /\ Outcome(Serial(Lists, [i \in 1..Len(threads) |-> i]), "X") # Outcome(Reached, "X")

\* the order the thread t is submitting, or submits next
Current(t) == threads[t].orders[threads[t].done + 1]

\* no call on the book s is in flight
Quiet(s) == \A t \in DOMAIN threads : threads[t].pc = "locked" => Current(t).Symbol # s

\* the orders on the book s whose submits have returned, thread by thread
DoneLists(s) ==
  [t \in DOMAIN threads |->
     SelectSeq(SubSeq(threads[t].orders, 1, threads[t].done), LAMBDA o : OnBook(o, s))]

\* C20: threads submit concurrently to different books.  Whenever no call
\* on a book is in flight (whatever calls on other books are in flight or
\* have returned), the book, its orders, its trades and the results of the
\* calls on it are those of a single caller that submitted, on a new engine,
\* only the orders of that book whose submits have returned.
C20_BooksIsolated ==
  \A s \in Symbols : Quiet(s) =>
    \E sq \in Schedules(DoneLists(s)) :
      Outcome(Serial(DoneLists(s), sq), s) = Outcome(Reached, s)

\* two threads have submitted to different books, their calls went one
\* between two of the other, and trades were made
C20_Witness ==
  /\ AllDone
  /\ Len(threads) = 2
  /\ \E h1, h2, h3 \in Handles : h1 < h2 /\ h2 < h3 /\ orders[h1].Symbol = orders[h3].Symbol
                                 /\ orders[h2].Symbol # orders[h1].Symbol
  /\ trades # <<>>

\* the call in flight carries an id that the lookup of its book holds
Duplicate ==
  /\ call.op = "submit"
  /\ orderBooks[BookKey(orders[call.taker])].orders[orders[call.taker].ID] # Nil

\* C21: a submit whose id is already in the lookup of its book emits no
\* trade and changes no book and no other order object at any of its steps,
\* and it returns the already-exists error with no trades.
C21_DuplicateRejected ==
  [][Duplicate =>
       /\ trades' = trades
       /\ orderBooks' = orderBooks
       /\ \A h \in Handles \ {call.taker} : orders'[h] = orders[h]
       /\ Returns => (ret'.err = ErrExists /\ ret'.trades = <<>>)]_vars

\* an order that the validation of a submit has to turn away
Invalid(o) == o.Quantity <= 0 \/ (o.Type = LimitOrder /\ o.Price <= 0)

\* C22: a submit of an order with quantity <= 0, or of a LIMIT order with
\* price <= 0, emits no trade, changes no book, and returns an error.
C22_InvalidRejected ==
  [][(call.op = "submit" /\ Invalid(orders[call.taker])) =>
       /\ trades' = trades
       /\ orderBooks' = orderBooks
       /\ Returns => ret'.err # ErrNone]_vars

\* C23: in every snapshot the bid entries are in strictly descending price
\* order and the ask entries in strictly ascending price order.
C23_SnapshotSorted ==
  AtRest => \A s \in Books :
    LET snapshot == GetOrderBook(s).snapshot
    IN /\ \A k \in 1..(Len(snapshot.Bids) - 1) : snapshot.Bids[k].Price > snapshot.Bids[k + 1].Price
       /\ \A k \in 1..(Len(snapshot.Asks) - 1) : snapshot.Asks[k].Price < snapshot.Asks[k + 1].Price

\* C24: a STOP order is matched like a LIMIT order at its Price: every trade
\* of a STOP taker satisfies the cross condition (a SELL taker's price is at
\* most the bid's price, a BUY taker's price is at least the ask's price).
C24_StopCrossCondition ==
  \A i \in 1..Len(trades) :
    LET taker == orders[trades[i].taker]
        maker == orders[trades[i].maker]
    IN taker.Type = StopOrder =>
         /\ taker.Side = SellOrder => (maker.Side = BuyOrder /\ taker.Price <= maker.Price)
         /\ taker.Side = BuyOrder => (maker.Side = SellOrder /\ maker.Price <= taker.Price)

\* C25: between calls, every order whose RemainingQty reached 0 through
\* matching, maker or taker, is in no queue and has status FILLED.
C25_FilledOrdersAreFilled ==
  AtRest => \A h \in Handles :
    (orders[h].RemainingQty = 0 /\ orders[h].FilledQty > 0) =>
      (h \notin Queued /\ orders[h].Status = OrderStatusFilled)

\* C26: whatever RemainingQty the caller put in the order, a submit matches
\* it for its whole Quantity: when the submit of a LIMIT order returns and
\* the order has traded less than its Quantity, the order is queued on its
\* own side with the quantity it has not traded.
C26_InitialisedBeforeMatching ==
  [][(Returns /\ orders[call.taker].Type = LimitOrder
        /\ TradedQty(call.trades, orders[call.taker].ID) < orders[call.taker].Quantity) =>
       LET t == call.taker
           o == orders[t]
       IN /\ t \in QueuedOn(orderBooks'[o.Symbol], o.Side)
          /\ orders'[t].RemainingQty + orders'[t].FilledQty = o.Quantity]_vars

\* C30: between calls, every order queued in a price level of a book has
\* status NEW or PARTIAL and RemainingQty > 0.
C30_QueuedAreOpen ==
  AtRest => \A h \in Queued :
    /\ orders[h].Status \in {OrderStatusNew, OrderStatusPartial}
    /\ orders[h].RemainingQty > 0

\* a partially filled maker is still queued while another maker, filled by
\* a trade, has left its queue
C30_Witness ==
  /\ AtRest
  /\ \E h \in Queued : orders[h].Status = OrderStatusPartial /\ TradedQty(trades, orders[h].ID) > 0
  /\ \E h \in Handles \ Queued :
       /\ orders[h].RemainingQty = 0
       /\ \E i \in 1..Len(trades) : trades[i].maker = h

\* the thread th is inside matchOrder
InMatching(th) == th.pc \in {"loop", "best", "fill", "remove", "removing"}

\* the thread th holds the lock l in the mode m
HoldsLock(th, l, m) == \E i \in 1..Len(th.held) : th.held[i] = [lock |-> l, mode |-> m]

\* C27: the engine holds the registry lock only while it obtains or creates
\* the book and has released it before matching: no thread inside matchOrder
\* holds me.mutex.
C27_RegistryReleasedBeforeMatching ==
  \A t \in DOMAIN threads :
    InMatching(threads[t]) => ~HoldsLock(threads[t], "engine", "W")

\* C28: no resting order is mutated while the writer lock of its book is not
\* held: a step that changes an order queued in a book is taken with
\* ob.mutex of that book held for writing.
C28_MutationUnderBookLock ==
  [][\A h \in Queued :
       orders'[h] # orders[h] =>
         \E t \in DOMAIN threads : HoldsLock(threads[t], orders[h].Symbol, "W")]_vars

\* the locks of books in the list held
BookLocks(held) == {held[i].lock : i \in 1..Len(held)} \ {"engine"}

\* C29: no thread takes the registry lock while it holds a book lock, and no
\* thread holds the locks of two books.
C29_LockOrder ==
  \A t \in DOMAIN threads :
    LET held == threads[t].held
    IN /\ \A i, j \in 1..Len(held) : (i < j /\ held[j].lock = "engine") => held[i].lock = "engine"
       /\ Cardinality(BookLocks(held)) <= 1

\* a cancel has left the first book of its range, released, and holds the
\* read lock of the second under the registry lock, while another thread has
\* returned from a submit and a third from a snapshot
C29_Witness ==
  /\ \E t \in DOMAIN threads :
       /\ threads[t].pc = "lookup"
       /\ Len(threads[t].scan) = 1
       /\ threads[t].held = <<[lock |-> "engine", mode |-> "W"], [lock |-> Head(threads[t].scan), mode |-> "R"]>>
  /\ \E t \in DOMAIN threads : \E k \in 1..Len(threads[t].results) : threads[t].results[k].op = "submit"
  /\ \E t \in DOMAIN threads : \E k \in 1..Len(threads[t].results) : threads[t].results[k].op = "snapshot"

\* C31: between calls, on each side of a book, the head level of the price
\* index holds an order whenever an order rests on that side, and no level
\* of the index has an empty queue.
C31_NoEmptyLevel ==
  AtRest => \A s \in Books : \A side \in OrderSides :
    LET pl == SideLevels(orderBooks[s], side)
    IN /\ QueuedOn(orderBooks[s], side) # {} => Len(pl[1].orders) > 0
       /\ \A k \in 1..Len(pl) : Len(pl[k].orders) > 0

\* the trades ts of one call are in matching order: the makers' prices go
\* from best to worst for the taker, and makers of one price come in their
\* admission order (handles grow with admission)
MatchingOrder(ts) ==
  \A i, j \in 1..Len(ts) :
    i < j =>
      /\ ~Better(orders[ts[j].maker].Side, ts[j].Price, ts[i].Price)
      /\ ts[i].Price = ts[j].Price => ts[i].maker < ts[j].maker

\* C32: the trades of a single submit, while it runs and as it returns
\* them, are in matching order: best to worst counterparty price, then
\* admission order within a price.
C32_TradesInMatchingOrder ==
  /\ MatchingOrder(call.trades)
  /\ ret.op = "submit" => MatchingOrder(ret.trades)

\* a submit has returned two trades, made with two makers
C32_Witness ==
  /\ AtRest
  /\ ret.op = "submit"
  /\ Len(ret.trades) = 2
  /\ ret.trades[1].maker # ret.trades[2].maker
  /\ ret.trades[1].taker = ret.trades[2].taker

\* C33: every emitted trade has the quantity min(taker RemainingQty, maker
\* RemainingQty), read just before the trade (the quantity is one of the
\* two and exceeds neither), and that quantity is strictly positive.
C33_TradeQuantity ==
  [][Emits =>
       /\ Emitted.Quantity <= orders[Emitted.taker].RemainingQty
       /\ Emitted.Quantity <= orders[Emitted.maker].RemainingQty
       /\ Emitted.Quantity \in {orders[Emitted.taker].RemainingQty, orders[Emitted.maker].RemainingQty}
       /\ Emitted.Quantity > 0
  ]_vars

\* a trade of quantity 1 was cut by the maker's remaining quantity, and
\* another by the taker's
C33_Witness ==
  /\ \E i \in 1..Len(trades) :
       /\ trades[i].Quantity = 1
       /\ orders[trades[i].taker].Quantity = 2
       /\ orders[trades[i].maker].Quantity = 1
  /\ \E i \in 1..Len(trades) :
       /\ trades[i].Quantity = 1
       /\ orders[trades[i].taker].Quantity = 1
       /\ orders[trades[i].maker].Quantity = 2

\* the thread th is inside the engine's CancelOrder
InCancel(th) == th.pc \in {"scan", "lookup", "cancel", "cancelling"}

\* C34: when the engine's CancelOrder returns, an order that rested in a
\* book is out of its level with status CANCELLED and the call returned no
\* error, whatever other books exist; every book that does not know the id
\* is unchanged; and the not-found error is returned only if no book knows
\* the id.
C34_CancelFindsTheBook ==
  [][\A t \in DOMAIN threads :
       (InCancel(threads[t]) /\ threads'[t].pc = "ready") =>
         LET id == NextOp(threads[t]).id
             r == threads'[t].results[Len(threads'[t].results)]
         IN /\ \A s \in Books : \A h \in QueuedOn(orderBooks[s], BuyOrder) \cup QueuedOn(orderBooks[s], SellOrder) :
                 orders[h].ID = id =>
                   /\ r.err = ErrNone
                   /\ orders'[h].Status = OrderStatusCancelled
                   /\ h \notin QueuedOn(orderBooks'[s], orders[h].Side)
            /\ \A s \in Symbols : id \notin Known(orderBooks[s]) => orderBooks'[s] = orderBooks[s]
            /\ r.err = ErrNotFound => \A s \in Symbols : id \notin Known(orderBooks[s])
  ]_vars

\* a cancel has returned no error for an order that rested in one book
\* while the other book held a resting order too
C34_Witness ==
  \E t \in DOMAIN threads : \E k \in 1..Len(threads[t].results) :
    /\ threads[t].results[k] = [op |-> "cancel", err |-> ErrNone, trades |-> <<>>]
    /\ \E h \in Handles :
         /\ orders[h].ID = threads[t].ops[k].id
         /\ orders[h].Status = OrderStatusCancelled
         /\ orders[h].RemainingQty > 0
         /\ \E g \in Queued : orders[g].Symbol # orders[h].Symbol

\* C35: the Order value obtained from GetOrder is not changed by any later
\* submit or cancel: what the caller holds stays the value it led to when
\* GetOrder returned.
C35_GetOrderReturnsClone ==
  threads # <<>> => orders[threads[1].order] = threads[1].value

\* every call of every thread has returned
AllReturned == \A t \in DOMAIN threads : threads[t].pc = "ready" /\ threads[t].done = Len(threads[t].ops)

C37_NeverCrossed ==
  AtRest => \A s \in Books :
    \A b \in QueuedOn(orderBooks[s], BuyOrder) : \A a \in QueuedOn(orderBooks[s], SellOrder) :
      orders[b].Price < orders[a].Price

\* the order has reached a terminal outcome: cancelled, fully filled or
\* rejected
Terminal(o) ==
  \/ o.Status \in {OrderStatusCancelled, OrderStatusFilled, OrderStatusRejected}
  \/ (o.RemainingQty = 0 /\ o.FilledQty > 0)

\* C38: an order that has reached a terminal outcome never trades again: no
\* trade is emitted that names, as buy or sell order, the id of an order
\* that was cancelled, fully filled or rejected before the trade.
C38_TerminalNeverTrades ==
  [][Emits =>
       \A h \in Handles :
         Terminal(orders[h]) => orders[h].ID \notin {Emitted.BuyOrderID, Emitted.SellOrderID}]_vars

\* the order objects without their owners
Erased(os) == [h \in 1..Len(os) |-> [os[h] EXCEPT !.UserID = ""]]

\* the second engine after the calls of the second caller
Second == Replay(NewMatchingEngine, threads)

\* C39: owner ids do not influence matching: two runs of the same submits
\* and cancels whose orders differ in their UserID only have, after every
\* call, the same trades (order ids, prices, quantities, in the same order),
\* the same books, the same orders but for the owners, and the same result
\* of the last call.
C39_OwnersDoNotMatter ==
  AtRest =>
    /\ orderBooks = Second.orderBooks
    /\ Erased(orders) = Erased(Second.orders)
    /\ TradesView(trades) = TradesView(Second.trades)
    /\ threads # <<>> =>
         LET r == Second.results[Len(Second.results)]
         IN /\ ret.err = r.err
            /\ TradesView(ret.trades) = TradesView(IF r.err = ErrNone THEN r.trades ELSE <<>>)

\* a taker has traded with a resting order of its own owner in one run and,
\* in the other run, with the same order of another owner
C39_Witness ==
  /\ AtRest
  /\ \E i \in 1..Len(trades) :
       /\ trades[i].BuyerUserID = trades[i].SellerUserID
       /\ Second.trades[i].BuyerUserID # Second.trades[i].SellerUserID
       /\ TradeView(trades[i]) = TradeView(Second.trades[i])

====
